---------------------------- MODULE Spec2Model ----------------------------
(***************************************************************************)
(* Model of contracts/bridge/script/utils/strip_witness.py: the function   *)
(* strip_witness_data, which removes the marker, flag and witness data of  *)
(* a SegWit transaction, and its helper read_varint.                        *)
(*                                                                          *)
(* A hex string is modelled as [prefix, digits]: whether it starts with    *)
(* "0x", and its hex digits as numbers 0..15 (letter case is not kept).    *)
(* Bytes are numbers 0..255; Python offsets are 0-based, TLA+ sequences    *)
(* 1-based, so raw[k] of the code is raw[k+1] here.                         *)
(***************************************************************************)
EXTENDS Integers, Sequences, FiniteSets, TLC

VARIABLES
    rawtx_hex,      \* the argument of the running call
    raw,            \* line 31
    pc,             \* position of the running call in strip_witness_data
    pos,            \* line 41
    version,        \* line 44
    marker_flag,    \* line 48
    input_count,    \* line 53
    varint_size,    \* lines 53, 63, 73, 81
    inputs_start,   \* line 58
    i,              \* loop variable of lines 59 and 77: iterations completed
    script_len,     \* lines 63, 81
    inputs_data,    \* line 69
    outputs_start,  \* line 72
    output_count,   \* line 73
    outputs_data,   \* line 85
    locktime,       \* line 89
    legacy_tx,      \* line 92
    result,         \* the value returned (lines 36, 97); None before that
    error,          \* the exception that ended the call, "none" otherwise
    call,           \* 1: the call on the given string, 2: the call on its result
    first,          \* the result of call 1, once call 2 has started
    tx,             \* the transaction the given string was serialized from
    cut             \* the number of bytes missing at the end of the given string

locals == <<pos, version, marker_flag, input_count, varint_size, inputs_start, i,
            script_len, inputs_data, outputs_start, output_count, outputs_data,
            locktime, legacy_tx>>

ghost == <<call, first, tx, cut>>

vars == <<rawtx_hex, raw, pc, locals, result, error, ghost>>

None == [prefix |-> FALSE, digits |-> <<16>>]

(***************************************************************************)
(* Bounds of the inputs.                                                   *)
(***************************************************************************)
MaxCount == 1       \* inputs, and outputs, of a transaction
MaxScriptLen == 1   \* bytes of a script; items of a witness stack
MaxCut == 10        \* bytes removed from the end of a serialization

(***************************************************************************)
(* Python's bytes and str operations.                                      *)
(***************************************************************************)
Min(a, b) == IF a <= b THEN a ELSE b

\* data[a:b] for 0 <= a, 0 <= b: both ends are clamped to len(data).
Slice(data, a, b) == SubSeq(data, Min(a, Len(data)) + 1, Min(b, Len(data)))

\* data[-n:]
Tail_n(data, n) == IF Len(data) <= n THEN data ELSE SubSeq(data, Len(data) - n + 1, Len(data))

\* bytes.fromhex of a string of hex digits (two digits per byte)
fromhex(digits) ==
    [k \in 1..(Len(digits) \div 2) |-> 16 * digits[2 * k - 1] + digits[2 * k]]

\* bytes.hex()
hex(bytes) ==
    [k \in 1..(2 * Len(bytes)) |->
        IF k % 2 = 1 THEN bytes[(k + 1) \div 2] \div 16 ELSE bytes[k \div 2] % 16]

\* int.from_bytes(bytes, 'little'); 0 for the empty sequence
RECURSIVE from_bytes_little(_)
from_bytes_little(bytes) ==
    IF bytes = <<>> THEN 0 ELSE Head(bytes) + 256 * from_bytes_little(Tail(bytes))

(***************************************************************************)
(* read_varint, lines 99-109.  data[pos] raises IndexError when pos is not *)
(* below len(data); the slices of lines 105-109 never raise.               *)
(***************************************************************************)
\* a reader that takes 253 for a one-byte value
read_varint_253(data, p) ==
    IF p >= Len(data) THEN [ok |-> FALSE, value |-> 0, size |-> 0]
    ELSE LET first_byte == data[p + 1] IN
         IF first_byte <= 253 THEN [ok |-> TRUE, value |-> first_byte, size |-> 1]
         ELSE IF first_byte = 254
              THEN [ok |-> TRUE, value |-> from_bytes_little(Slice(data, p + 1, p + 5)), size |-> 5]
         ELSE [ok |-> TRUE, value |-> from_bytes_little(Slice(data, p + 1, p + 9)), size |-> 9]

\* a reader that reports a consumed width of 1 for every encoding
read_varint_width1(data, p) ==
    IF p >= Len(data) THEN [ok |-> FALSE, value |-> 0, size |-> 0]
    ELSE LET first_byte == data[p + 1] IN
         IF first_byte < 253 THEN [ok |-> TRUE, value |-> first_byte, size |-> 1]
         ELSE IF first_byte = 253
              THEN [ok |-> TRUE, value |-> from_bytes_little(Slice(data, p + 1, p + 3)), size |-> 1]
         ELSE IF first_byte = 254
              THEN [ok |-> TRUE, value |-> from_bytes_little(Slice(data, p + 1, p + 5)), size |-> 1]
         ELSE [ok |-> TRUE, value |-> from_bytes_little(Slice(data, p + 1, p + 9)), size |-> 1]

read_varint(data, p) ==
    IF p >= Len(data) THEN [ok |-> FALSE, value |-> 0, size |-> 0]
    ELSE LET first_byte == data[p + 1] IN
         IF first_byte < 253 THEN [ok |-> TRUE, value |-> first_byte, size |-> 1]
         ELSE IF first_byte = 253
              THEN [ok |-> TRUE, value |-> from_bytes_little(Slice(data, p + 1, p + 3)), size |-> 3]
         ELSE IF first_byte = 254
              THEN [ok |-> TRUE, value |-> from_bytes_little(Slice(data, p + 1, p + 5)), size |-> 5]
         ELSE [ok |-> TRUE, value |-> from_bytes_little(Slice(data, p + 1, p + 9)), size |-> 9]

(***************************************************************************)
(* The pieces of strip_witness_data that are expressions of their own.     *)
(***************************************************************************)
HeaderLen == 4        \* version, line 45
MarkerLen == 2        \* marker and flag, line 49
PrevOutLen == 36      \* previous output, line 61
SequenceLen == 4      \* sequence, line 68
ValueLen == 8         \* value, line 79
LocktimeLen == 4      \* locktime, line 89

\* a detection that looks at the marker byte alone
NotSegWit_MarkerOnly(data) == Len(data) < 6 \/ Slice(data, 4, 5) # <<0>>

\* a detection that looks at the flag byte alone
NotSegWit_FlagOnly(data) == Len(data) < 6 \/ Slice(data, 5, 6) # <<1>>

\* a detection that lets a string too short for a marker through to the parser
NotSegWit_ShortParsed(data) == Len(data) >= 6 /\ Slice(data, 4, 6) # <<0, 1>>

\* line 34: the condition under which the string is returned as it is
NotSegWit(data) == Len(data) < 6 \/ Slice(data, 4, 6) # <<0, 1>>

\* an assembly with the two sections in the wrong order
LegacyTx_Swapped(v, ins, outs, lt) == v \o outs \o ins \o lt

\* line 92
LegacyTx(v, ins, outs, lt) == v \o ins \o outs \o lt

\* line 97
HexResult(bytes) == [prefix |-> TRUE, digits |-> hex(bytes)]

(***************************************************************************)
(* Serializations given to the program, after the two formats of lines     *)
(* 12-29.  A transaction is described by tx: its format (kind), the number *)
(* of inputs and outputs, the script lengths, the number of items of each  *)
(* witness stack, and the width w of the encoding of every varint.         *)
(***************************************************************************)
Kinds == {"segwit", "legacy", "flag2"}
Widths == {1, 3, 5, 9}

Fill(n, base) == [k \in 1..n |-> base + k - 1]

Zeros(n) == [k \in 1..n |-> 0]

EncVarint(v, w) ==
    IF w = 1 THEN <<v>>
    ELSE <<(IF w = 3 THEN 253 ELSE IF w = 5 THEN 254 ELSE 255), v>> \o Zeros(w - 2)

RECURSIVE Repeat(_, _)
Repeat(s, n) == IF n = 0 THEN <<>> ELSE s \o Repeat(s, n - 1)

TxIn(t) == Fill(36, 1) \o EncVarint(t.inScript, t.w) \o Fill(t.inScript, 96)
              \o Fill(4, 240)

TxOut(t) == Fill(8, 128) \o EncVarint(t.outScript, t.w) \o Fill(t.outScript, 112)

Inputs(t) == EncVarint(t.nIn, t.w) \o Repeat(TxIn(t), t.nIn)

Outputs(t) == EncVarint(t.nOut, t.w) \o Repeat(TxOut(t), t.nOut)

WitnessStack(t) == EncVarint(t.wit, t.w) \o Repeat(EncVarint(1, t.w) \o <<170>>, t.wit)

Witness(t) == Repeat(WitnessStack(t), t.nIn)

Version == <<2, 0, 0, 0>>

Locktime == <<225, 226, 227, 228>>

Serialize(t) ==
    IF t.kind = "legacy" THEN Version \o Inputs(t) \o Outputs(t) \o Locktime
    ELSE Version \o (IF t.kind = "segwit" THEN <<0, 1>> ELSE <<0, 2>>)
            \o Inputs(t) \o Outputs(t) \o Witness(t) \o Locktime

Txs == {t \in [kind : Kinds, w : Widths, nIn : 0..MaxCount, inScript : 0..MaxScriptLen,
               wit : 0..MaxScriptLen, nOut : 0..MaxCount, outScript : 0..MaxScriptLen] :
          /\ t.nIn = 0 => t.inScript = 0 /\ t.wit = 0
          /\ t.nOut = 0 => t.outScript = 0
          /\ t.kind = "legacy" => t.wit = 0}

(***************************************************************************)
(* The state machine.                                                      *)
(***************************************************************************)
InitLocals ==
    /\ raw = <<>>
    /\ pos = 0 /\ version = <<>> /\ marker_flag = <<>>
    /\ input_count = 0 /\ varint_size = 0 /\ inputs_start = 0 /\ i = 0
    /\ script_len = 0 /\ inputs_data = <<>> /\ outputs_start = 0
    /\ output_count = 0 /\ outputs_data = <<>> /\ locktime = <<>> /\ legacy_tx = <<>>

Init ==
    /\ tx \in Txs
    /\ \E full \in {Serialize(tx)} :
          /\ cut \in 0..Min(MaxCut, Len(full))
          /\ \E given \in {SubSeq(full, 1, Len(full) - cut)}, prefix \in BOOLEAN :
                rawtx_hex = [prefix |-> prefix, digits |-> hex(given)]
    /\ pc = "detect"
    /\ InitLocals
    /\ result = None
    /\ error = "none"
    /\ call = 1
    /\ first = None

Raise(e) ==
    /\ pc' = "error"
    /\ error' = e
    /\ UNCHANGED <<rawtx_hex, raw, locals, result, ghost>>

\* lines 31-38
Detect ==
    /\ pc = "detect"
    /\ raw' = fromhex(rawtx_hex.digits)
    /\ IF NotSegWit(raw')
       THEN pc' = "done" /\ result' = rawtx_hex
       ELSE pc' = "header" /\ result' = result
    /\ UNCHANGED <<rawtx_hex, locals, error, ghost>>

\* lines 41-50
Header ==
    /\ pc = "header"
    /\ version' = Slice(raw, 0, HeaderLen)
    /\ marker_flag' = Slice(raw, HeaderLen, HeaderLen + MarkerLen)
    /\ pos' = HeaderLen + MarkerLen
    /\ pc' = "input_count"
    /\ UNCHANGED <<rawtx_hex, raw, input_count, varint_size, inputs_start, i, script_len,
                   inputs_data, outputs_start, output_count, outputs_data, locktime,
                   legacy_tx, result, error, ghost>>

\* lines 53-58
ReadInputCount ==
    /\ pc = "input_count"
    /\ LET r == read_varint(raw, pos) IN
       IF r.ok
       THEN /\ input_count' = r.value
            /\ varint_size' = r.size
            /\ pos' = pos + r.size
            /\ inputs_start' = pos
            /\ i' = 0
            /\ pc' = "inputs"
            /\ UNCHANGED <<rawtx_hex, raw, version, marker_flag, script_len, inputs_data,
                           outputs_start, output_count, outputs_data, locktime, legacy_tx,
                           result, error, ghost>>
       ELSE Raise("IndexError")

\* one iteration of the loop of lines 59-68
InputRecord ==
    /\ pc = "inputs"
    /\ i < input_count
    /\ LET r == read_varint(raw, pos + PrevOutLen) IN
       IF r.ok
       THEN /\ script_len' = r.value
            /\ varint_size' = r.size
            /\ pos' = pos + PrevOutLen + r.size + r.value + SequenceLen
            /\ i' = i + 1
            /\ UNCHANGED <<rawtx_hex, raw, pc, version, marker_flag, input_count,
                           inputs_start, inputs_data, outputs_start, output_count,
                           outputs_data, locktime, legacy_tx, result, error, ghost>>
       ELSE Raise("IndexError")

\* the end of the loop, and lines 69-75
ReadOutputCount ==
    /\ pc = "inputs"
    /\ i >= input_count
    /\ inputs_data' = Slice(raw, inputs_start, pos)
    /\ outputs_start' = pos
    /\ LET r == read_varint(raw, pos) IN
       IF r.ok
       THEN /\ output_count' = r.value
            /\ varint_size' = r.size
            /\ pos' = pos + r.size
            /\ i' = 0
            /\ pc' = "outputs"
            /\ error' = error
       ELSE /\ pc' = "error"
            /\ error' = "IndexError"
            /\ UNCHANGED <<output_count, varint_size, pos, i>>
    /\ UNCHANGED <<rawtx_hex, raw, version, marker_flag, input_count, inputs_start,
                   script_len, outputs_data, locktime, legacy_tx, result, ghost>>

\* one iteration of the loop of lines 77-84
OutputRecord ==
    /\ pc = "outputs"
    /\ i < output_count
    /\ LET r == read_varint(raw, pos + ValueLen) IN
       IF r.ok
       THEN /\ script_len' = r.value
            /\ varint_size' = r.size
            /\ pos' = pos + ValueLen + r.size + r.value
            /\ i' = i + 1
            /\ UNCHANGED <<rawtx_hex, raw, pc, version, marker_flag, input_count,
                           inputs_start, inputs_data, outputs_start, output_count,
                           outputs_data, locktime, legacy_tx, result, error, ghost>>
       ELSE Raise("IndexError")

\* the end of the loop, and lines 85-97
Assemble ==
    /\ pc = "outputs"
    /\ i >= output_count
    /\ outputs_data' = Slice(raw, outputs_start, pos)
    /\ locktime' = Tail_n(raw, LocktimeLen)
    /\ legacy_tx' = LegacyTx(version, inputs_data, outputs_data', locktime')
    /\ result' = HexResult(legacy_tx')
    /\ pc' = "done"
    /\ UNCHANGED <<rawtx_hex, raw, pos, version, marker_flag, input_count, varint_size,
                   inputs_start, i, script_len, inputs_data, outputs_start, output_count,
                   error, ghost>>

\* lines 116-117, run on the string a first run printed
Reinvoke ==
    /\ pc = "done"
    /\ call = 1
    /\ rawtx_hex' = result
    /\ first' = result
    /\ call' = 2
    /\ pc' = "detect"
    /\ result' = None
    /\ raw' = <<>>
    /\ pos' = 0 /\ version' = <<>> /\ marker_flag' = <<>>
    /\ input_count' = 0 /\ varint_size' = 0 /\ inputs_start' = 0 /\ i' = 0
    /\ script_len' = 0 /\ inputs_data' = <<>> /\ outputs_start' = 0
    /\ output_count' = 0 /\ outputs_data' = <<>> /\ locktime' = <<>> /\ legacy_tx' = <<>>
    /\ UNCHANGED <<error, tx, cut>>

Next ==
    \/ Detect
    \/ Header
    \/ ReadInputCount
    \/ InputRecord
    \/ ReadOutputCount
    \/ OutputRecord
    \/ Assemble
    \/ Reinvoke

Spec == Init /\ [][Next]_vars

(***************************************************************************)
(* Vocabulary of the properties.                                           *)
(***************************************************************************)
Terminal == pc \in {"done", "error"}

\* the given string is the whole serialization of a SegWit transaction
ValidSegWit == tx.kind = "segwit" /\ cut = 0

\* bytes 4-5 are 0x00, 0x01
HasMarker(data) == Len(data) >= 6 /\ data[5] = 0 /\ data[6] = 1

\* the state right after the given hex string is decoded
Decoded == call = 1 /\ pc \in {"header", "done"} /\ pos = 0

Bytes(h) == fromhex(h.digits)

InputSectionLen(t) == t.w + t.nIn * (36 + t.w + t.inScript + 4)

OutputSectionLen(t) == t.w + t.nOut * (8 + t.w + t.outScript)

\* the number of payload bytes that discriminant d announces
PayloadLen(d) == IF d < 253 THEN 0 ELSE IF d = 253 THEN 2 ELSE IF d = 254 THEN 4 ELSE 8

\* the little-endian value of the n bytes after offset p
LittleEndian(data, p, n) ==
    IF n = 2 THEN data[p + 2] + 256 * data[p + 3]
    ELSE IF n = 4
         THEN data[p + 2] + 256 * (data[p + 3] + 256 * (data[p + 4] + 256 * data[p + 5]))
    ELSE data[p + 2] + 256 * (data[p + 3] + 256 * (data[p + 4] + 256 * (data[p + 5]
            + 256 * (data[p + 6] + 256 * (data[p + 7] + 256 * (data[p + 8]
            + 256 * data[p + 9]))))))

(***************************************************************************)
(* C1                                                                      *)
(***************************************************************************)
\* C1, as stated: for every valid SegWit serialization x, the call on the result
\* of strip_witness_data(x) returns that result again.
C1_Idempotent ==
    (ValidSegWit /\ call = 2 /\ Terminal) => (pc = "done" /\ result = first)

\* C1, amended: the same, for every valid SegWit serialization except those whose
\* input count byte 0x00 is followed by the byte 0x01 (no input, one output); the
\* second call then finds no marker and returns its argument as it is.
C1_IdempotentWithoutMarker ==
    (ValidSegWit /\ call = 2 /\ Terminal
        /\ ~(Serialize(tx)[7] = 0 /\ Serialize(tx)[8] = 1))
    => (pc = "done" /\ error = "none" /\ ~HasMarker(raw)
          /\ result = rawtx_hex /\ result = first)

C1_Witness ==
    /\ ValidSegWit /\ call = 2 /\ pc = "done"
    /\ tx.nIn = 1 /\ tx.wit = 1 /\ tx.nOut = 1
    /\ result = first

(***************************************************************************)
(* C2                                                                      *)
(***************************************************************************)
\* C2: a string of at least 6 bytes whose bytes 4-5 are not 0x00, 0x01 is returned
\* exactly as given, without an error and without any step of the walk.
C2_NoOp ==
    (Terminal /\ Len(Bytes(rawtx_hex)) >= 6 /\ ~HasMarker(Bytes(rawtx_hex)))
    => (pc = "done" /\ error = "none" /\ result = rawtx_hex /\ pos = 0 /\ legacy_tx = <<>>)

C2_Witness ==
    /\ pc = "done" /\ Len(raw) >= 6 /\ raw[5] = 0 /\ raw[6] = 2
    /\ result = rawtx_hex

(***************************************************************************)
(* C3                                                                      *)
(***************************************************************************)
\* C3: for a valid SegWit serialization the result is raw[0:4], raw[6:inputsEnd],
\* raw[inputsEnd:outputsEnd] and raw[len-4:len] in that order, inputsEnd and
\* outputsEnd being the cursor after each walk: the legacy serialization of the
\* same transaction, without marker, flag and witness.
C3_Assembly ==
    (ValidSegWit /\ call = 1 /\ Terminal)
    => /\ pc = "done"
       /\ inputs_start = 6
       /\ outputs_start = 6 + InputSectionLen(tx)
       /\ pos = outputs_start + OutputSectionLen(tx)
       /\ pos + 4 + Len(Witness(tx)) = Len(raw)
       /\ Bytes(result) = SubSeq(raw, 1, 4) \o SubSeq(raw, inputs_start + 1, outputs_start)
                             \o SubSeq(raw, outputs_start + 1, pos)
                             \o SubSeq(raw, Len(raw) - 3, Len(raw))
       /\ Bytes(result) = Serialize([tx EXCEPT !.kind = "legacy"])
       /\ result.prefix

C3_Witness ==
    /\ ValidSegWit /\ call = 1 /\ pc = "done"
    /\ tx.nIn = 1 /\ tx.inScript = 1 /\ tx.wit = 1 /\ tx.nOut = 1 /\ tx.outScript = 1
    /\ tx.w = 3
    /\ Bytes(result) = Serialize([tx EXCEPT !.kind = "legacy"])

(***************************************************************************)
(* C4                                                                      *)
(***************************************************************************)
\* C4: for a valid SegWit serialization the result has 4 + the length of the input
\* section + the length of the output section + 4 bytes, and is shorter than the
\* given string whenever the witness data is not empty.
C4_Length ==
    (ValidSegWit /\ call = 1 /\ Terminal)
    => /\ pc = "done"
       /\ Len(Bytes(result)) = 4 + InputSectionLen(tx) + OutputSectionLen(tx) + 4
       /\ Len(Witness(tx)) > 0 => Len(Bytes(result)) < Len(Bytes(rawtx_hex))

C4_Witness ==
    /\ ValidSegWit /\ call = 1 /\ pc = "done"
    /\ tx.nIn = 1 /\ tx.nOut = 1 /\ tx.w = 5 /\ Len(Witness(tx)) > 0
    /\ Len(Bytes(result)) < Len(Bytes(rawtx_hex))

(***************************************************************************)
(* C5                                                                      *)
(***************************************************************************)
\* C5: the call on a valid SegWit serialization without its last byte ends with an
\* out-of-bounds error and returns nothing.
C5_TruncationFails ==
    (tx.kind = "segwit" /\ cut = 1 /\ call = 1 /\ Terminal)
    => (pc = "error" /\ error = "IndexError" /\ result = None)

C7_VarintDecoding ==
    Decoded =>
        \A p \in 0..(Len(raw) - 1) :
            LET d == raw[p + 1]
                n == PayloadLen(d)
            IN  p + n < Len(raw) =>
                    read_varint(raw, p) =
                        [ok |-> TRUE,
                         value |-> IF n = 0 THEN d ELSE LittleEndian(raw, p, n),
                         size |-> 1 + n]

C7_Witness ==
    /\ pc = "header" /\ pos = 0 /\ ValidSegWit
    /\ tx.w = 9 /\ tx.nIn = 1
    /\ raw[7] = 255
    /\ read_varint(raw, 6) = [ok |-> TRUE, value |-> 1, size |-> 9]

(***************************************************************************)
(* C8                                                                      *)
(***************************************************************************)
\* C8: read_varint fails at every offset at or beyond the end of the string, and
\* at every offset whose discriminant announces more payload bytes than remain.
C8_VarintBounds ==
    Decoded =>
        \A p \in 0..Len(raw) :
            (p >= Len(raw) \/ p + PayloadLen(raw[p + 1]) >= Len(raw))
                => ~read_varint(raw, p).ok

(***************************************************************************)
(* C9                                                                      *)
(***************************************************************************)
\* C9: when the call on a string with the marker returns a result, the cursor is
\* not beyond the end of the string (the cursor only grows, so it never was).
C9_CursorInBounds ==
    (pc = "done" /\ HasMarker(raw)) => pos <= Len(raw)

(***************************************************************************)
(* C10                                                                     *)
(***************************************************************************)
\* C10: when the call on a string with the marker returns a result, the cursor
\* after the output walk leaves at least the 4 bytes of the locktime.
C10_TrailerDisjoint ==
    (pc = "done" /\ HasMarker(raw)) => pos + 4 <= Len(raw)

=============================================================================
